---- MODULE Spec2Model ----
(***************************************************************************)
(* Vectorize tool contract layer of mcp-server-cloudflare:                 *)
(*   packages/mcp-common/src/types/vectorize.ts  (zod parameter schemas)   *)
(*   packages/mcp-common/src/tools/vectorize.ts  (the ten tool handlers)   *)
(*                                                                         *)
(* JavaScript values are tagged records.  A string is a sequence of runs   *)
(* [c, n] (character c repeated n times), so that length and character     *)
(* class checks are computed on the value.  A text built by a template     *)
(* literal or by JSON.stringify is a sequence of chunks: literal pieces    *)
(* and embedded string values.                                             *)
(***************************************************************************)
EXTENDS Integers, Sequences, FiniteSets, TLC

VARIABLES activeAccount, inv

vars == <<activeAccount, inv>>

(***************************************************************************)
(* Bounds of the model.                                                    *)
(***************************************************************************)
\* number of invocation slots of the host runtime
MaxInv == 2

\* longest list of vector ids an invocation is given
MaxIds == 2

\* longest query vector an invocation is given
MaxVector == 2

(***************************************************************************)
(* JavaScript values.                                                      *)
(***************************************************************************)
Undefined == [t |-> "undefined"]

Null == [t |-> "null"]

Bool(b) == [t |-> "bool", b |-> b]

\* the number whole + (IF half THEN 0.5 ELSE 0)
Num(whole, half) == [t |-> "num", whole |-> whole, half |-> half]

Int_(n) == Num(n, FALSE)

Run(c, n) == [c |-> c, n |-> n]

Str(runs) == [t |-> "str", runs |-> runs]

\* the string of n copies of character c
Rep(c, n) == Str(IF n = 0 THEN <<>> ELSE <<Run(c, n)>>)

EmptyStr == Str(<<>>)

Arr(items) == [t |-> "arr", items |-> items]

\* an object: its own enumerable properties in insertion order
Obj(props) == [t |-> "obj", props |-> props]

Prop(k, v) == [k |-> k, v |-> v]

\* an object that refers to itself: JSON.stringify throws a TypeError on it
Circular == [t |-> "circular"]

\* an Error instance with the given message
ErrorObj(message) == [t |-> "error", message |-> message]

\* a string assembled from literal pieces and embedded string values
Text(chunks) == [t |-> "text", chunks |-> chunks]

Lit(l) == [t |-> "lit", l |-> l]

Quote == Lit("\"")

EscQuote == Lit("\\\"")

IsString(v) == v.t \in {"str", "text"}

RECURSIVE RunsLen(_)
RunsLen(runs) == IF runs = <<>> THEN 0 ELSE Head(runs).n + RunsLen(Tail(runs))

StrLen(s) == RunsLen(s.runs)

\* the chunks of a string value
Chunks(s) == IF s.t = "text" THEN s.chunks ELSE IF s.runs = <<>> THEN <<>> ELSE <<s>>

\* ToBoolean(v) = false
Falsy(v) ==
    \/ v.t \in {"undefined", "null"}
    \/ v.t = "str" /\ v.runs = <<>>
    \/ v.t = "text" /\ v.chunks = <<>>
    \/ v.t = "num" /\ v.whole = 0 /\ ~v.half
    \/ v.t = "bool" /\ ~v.b

\* a ?? b
Coalesce(a, b) == IF a.t \in {"undefined", "null"} THEN b ELSE a

\* String(v), as chunks
ToStr(v) ==
    CASE v.t = "undefined" -> <<Lit("undefined")>>
      [] v.t = "null" -> <<Lit("null")>>
      [] v.t \in {"str", "text"} -> Chunks(v)
      [] v.t = "bool" -> <<Lit(IF v.b THEN "true" ELSE "false")>>
      [] v.t = "error" -> <<Lit("Error"), Lit(": ")>> \o Chunks(v.message)
      [] OTHER -> <<Lit("[object Object]")>>

(***************************************************************************)
(* Schemas (types/vectorize.ts).  A schema applied to an input gives       *)
(* [issues, value]: the issues zod collects (none: the input is accepted)  *)
(* and the parsed value.                                                   *)
(***************************************************************************)
NameMaxLen == 64

DescriptionMaxLen == 1024

PerPageMax == 100

Letters ==
    {"a", "b", "c", "d", "e", "f", "g", "h", "i", "j", "k", "l", "m",
     "n", "o", "p", "q", "r", "s", "t", "u", "v", "w", "x", "y", "z",
     "A", "B", "C", "D", "E", "F", "G", "H", "I", "J", "K", "L", "M",
     "N", "O", "P", "Q", "R", "S", "T", "U", "V", "W", "X", "Y", "Z"}

Digits == {"0", "1", "2", "3", "4", "5", "6", "7", "8", "9"}

\* the character class [a-zA-Z0-9_-]
NameChars == Letters \cup Digits \cup {"_", "-"}

Parsed(issues, value) == [issues |-> issues, value |-> value]

Issue(code, message) == [code |-> code, message |-> message]

Accepts(p) == p.issues = <<>>

\* .optional(): undefined passes, anything else goes to the inner schema
Optional(input, inner) == IF input = Undefined THEN Parsed(<<>>, Undefined) ELSE inner

\* z.number().int().positive(message) with an optional .max(max); max = -1: none
IntPositiveIssues(input, max, message) ==
    IF input.t # "num" THEN <<Issue("invalid_type", "")>>
    ELSE (IF input.half THEN <<Issue("not_integer", "")>> ELSE <<>>)
      \o (IF input.whole > 0 \/ (input.whole = 0 /\ input.half) THEN <<>>
          ELSE <<Issue("too_small", message)>>)
      \o (IF max >= 0 /\ (input.whole > max \/ (input.whole = max /\ input.half))
          THEN <<Issue("too_big", "")>> ELSE <<>>)

\* z.enum(members)
EnumIssues(input, members) ==
    IF input.t = "str" /\ input \in members THEN <<>> ELSE <<Issue("invalid_enum_value", "")>>

\* z.string().min(1, message)
NonEmptyStringIssues(input, message) ==
    IF input.t # "str" THEN <<Issue("invalid_type", "")>>
    ELSE IF StrLen(input) >= 1 THEN <<>> ELSE <<Issue("too_small", message)>>

\* the value of property k of an object, undefined when it has none
RECURSIVE GetProp(_, _)
GetProp(props, k) ==
    IF props = <<>> THEN Undefined
    ELSE IF Head(props).k = k THEN Head(props).v ELSE GetProp(Tail(props), k)

\* the name schema without .max(64)
NameSchemaWithoutMax(input) ==
    Parsed(
      IF input.t # "str" THEN <<Issue("invalid_type", "")>>
      ELSE (IF StrLen(input) >= 1 THEN <<>>
            ELSE <<Issue("too_small", "Index name cannot be empty.")>>)
        \o (IF StrLen(input) >= 1 /\ \A k \in 1..Len(input.runs) : input.runs[k].c \in NameChars
            THEN <<>>
            ELSE <<Issue("invalid_string",
                    "Index name can only contain alphanumeric characters, underscores, and hyphens.")>>),
      input)

VectorizeIndexNameSchema(input) ==
    Parsed(
      IF input.t # "str" THEN <<Issue("invalid_type", "")>>
      ELSE (IF StrLen(input) >= 1 THEN <<>>
            ELSE <<Issue("too_small", "Index name cannot be empty.")>>)
        \o (IF StrLen(input) <= NameMaxLen THEN <<>>
            ELSE <<Issue("too_big", "Index name cannot exceed 64 characters.")>>)
        \o (IF StrLen(input) >= 1 /\ \A k \in 1..Len(input.runs) : input.runs[k].c \in NameChars
            THEN <<>>
            ELSE <<Issue("invalid_string",
                    "Index name can only contain alphanumeric characters, underscores, and hyphens.")>>),
      input)

VectorizeIndexDescriptionSchema(input) ==
    Optional(input, Parsed(
      IF input.t # "str" THEN <<Issue("invalid_type", "")>>
      ELSE IF StrLen(input) <= DescriptionMaxLen THEN <<>>
      ELSE <<Issue("too_big", "Description cannot exceed 1024 characters.")>>,
      input))

\* a dimensions validator that also enforces the remote range 32..1536
DimensionSchemaWithRange(input) ==
    [issues |-> IF input.t # "num" THEN <<[code |-> "invalid_type", message |-> ""]>>
                ELSE IF input.half THEN <<[code |-> "not_integer", message |-> ""]>>
                ELSE IF input.whole < 32 THEN <<[code |-> "too_small", message |-> ""]>>
                ELSE IF input.whole > 1536 THEN <<[code |-> "too_big", message |-> ""]>>
                ELSE <<>>,
     value |-> input]

VectorizeIndexDimensionSchema(input) ==
    Parsed(IntPositiveIssues(input, -1, "Dimensions must be a positive integer."), input)

\* the string value with the given characters
RECURSIVE RunsOf(_)
RunsOf(chars) ==
    IF chars = <<>> THEN <<>>
    ELSE LET rest == RunsOf(Tail(chars))
         IN  IF rest # <<>> /\ Head(rest).c = Head(chars)
             THEN <<Run(Head(chars), Head(rest).n + 1)>> \o Tail(rest)
             ELSE <<Run(Head(chars), 1)>> \o rest

S(chars) == Str(RunsOf(chars))

Cosine == S(<<"c", "o", "s", "i", "n", "e">>)

Metrics ==
    {Cosine,
     S(<<"e", "u", "c", "l", "i", "d", "e", "a", "n">>),
     S(<<"d", "o", "t", "-", "p", "r", "o", "d", "u", "c", "t">>)}

VectorizeIndexMetricSchema(input) == Parsed(EnumIssues(input, Metrics), input)

\* z.object({dimensions, metric}): unknown keys are stripped from the output
VectorizeIndexDimensionConfigSchema(input) ==
    IF input.t # "obj" THEN Parsed(<<Issue("invalid_type", "")>>, input)
    ELSE LET d == VectorizeIndexDimensionSchema(GetProp(input.props, "dimensions"))
             m == VectorizeIndexMetricSchema(GetProp(input.props, "metric"))
         IN  Parsed(d.issues \o m.issues,
                    Obj(<<Prop("dimensions", d.value), Prop("metric", m.value)>>))

BgeSmall ==
    S(<<"@", "c", "f", "/", "b", "a", "a", "i", "/", "b", "g", "e", "-", "s", "m", "a", "l",
       "l", "-", "e", "n", "-", "v", "1", ".", "5">>)

Presets ==
    {BgeSmall,
     S(<<"@", "c", "f", "/", "b", "a", "a", "i", "/", "b", "g", "e", "-", "b", "a", "s", "e",
       "-", "e", "n", "-", "v", "1", ".", "5">>),
     S(<<"@", "c", "f", "/", "b", "a", "a", "i", "/", "b", "g", "e", "-", "l", "a", "r", "g",
       "e", "-", "e", "n", "-", "v", "1", ".", "5">>),
     S(<<"o", "p", "e", "n", "a", "i", "/", "t", "e", "x", "t", "-", "e", "m", "b", "e", "d",
       "d", "i", "n", "g", "-", "a", "d", "a", "-", "0", "0", "2">>),
     S(<<"c", "o", "h", "e", "r", "e", "/", "e", "m", "b", "e", "d", "-", "m", "u", "l", "t",
       "i", "l", "i", "n", "g", "u", "a", "l", "-", "v", "2", ".", "0">>)}

VectorizeIndexPresetSchema(input) == Parsed(EnumIssues(input, Presets), input)

\* z.object({preset}): unknown keys are stripped from the output
VectorizeIndexPresetConfigSchema(input) ==
    IF input.t # "obj" THEN Parsed(<<Issue("invalid_type", "")>>, input)
    ELSE LET p == VectorizeIndexPresetSchema(GetProp(input.props, "preset"))
         IN  Parsed(p.issues, Obj(<<Prop("preset", p.value)>>))

\* z.union([dimension config, preset config]): the first option that accepts
\* gives the value; when none does, one invalid_union issue carries the
\* issues of every option
VectorizeIndexConfigSchema(input) ==
    LET a == VectorizeIndexDimensionConfigSchema(input)
        b == VectorizeIndexPresetConfigSchema(input)
    IN  IF Accepts(a) THEN a
        ELSE IF Accepts(b) THEN b
        ELSE Parsed(<<[code |-> "invalid_union", message |-> "",
                       unionErrors |-> <<a.issues, b.issues>>]>>, input)

\* z.array(z.string().min(1)).min(1, message)
VectorizeVectorIdListSchema(input) ==
    Parsed(
      IF input.t # "arr" THEN <<Issue("invalid_type", "")>>
      ELSE (IF Len(input.items) >= 1 THEN <<>>
            ELSE <<Issue("too_small", "At least one vector ID must be provided.")>>)
        \o (IF \A k \in 1..Len(input.items) : NonEmptyStringIssues(input.items[k], "") = <<>>
            THEN <<>> ELSE <<Issue("invalid_element", "")>>),
      input)

VectorizeNdjsonBodySchema(input) ==
    Parsed(NonEmptyStringIssues(input, "NDJSON body cannot be empty."), input)

UnparsableBehaviors == {S(<<"e", "r", "r", "o", "r">>), S(<<"d", "i", "s", "c", "a", "r", "d">>)}

VectorizeUnparsableBehaviorSchema(input) ==
    Optional(input, Parsed(EnumIssues(input, UnparsableBehaviors), input))

\* z.array(z.number()).min(1, message)
VectorizeQueryVectorSchema(input) ==
    Parsed(
      IF input.t # "arr" THEN <<Issue("invalid_type", "")>>
      ELSE (IF Len(input.items) >= 1 THEN <<>>
            ELSE <<Issue("too_small", "Query vector cannot be empty.")>>)
        \o (IF \A k \in 1..Len(input.items) : input.items[k].t = "num"
            THEN <<>> ELSE <<Issue("invalid_element", "")>>),
      input)

\* z.record(z.unknown()).optional()
VectorizeQueryFilterSchema(input) ==
    Optional(input, Parsed(IF input.t = "obj" THEN <<>> ELSE <<Issue("invalid_type", "")>>, input))

ReturnMetadataValues ==
    {S(<<"n", "o", "n", "e">>), S(<<"i", "n", "d", "e", "x", "e", "d">>), S(<<"a", "l", "l">>)}

VectorizeQueryReturnMetadataSchema(input) ==
    Optional(input, Parsed(EnumIssues(input, ReturnMetadataValues), input))

VectorizeQueryReturnValuesSchema(input) ==
    Optional(input, Parsed(IF input.t = "bool" THEN <<>> ELSE <<Issue("invalid_type", "")>>, input))

VectorizeQueryTopKSchema(input) ==
    Optional(input, Parsed(IntPositiveIssues(input, -1, "topK must be a positive integer."), input))

VectorizeListPageParam(input) ==
    Optional(input, Parsed(IntPositiveIssues(input, -1, ""), input))

VectorizeListPerPageParam(input) ==
    Optional(input, Parsed(IntPositiveIssues(input, PerPageMax, ""), input))

VectorizeListOrderParam(input) ==
    Optional(input, Parsed(IF input.t = "str" THEN <<>> ELSE <<Issue("invalid_type", "")>>, input))

Directions == {S(<<"a", "s", "c">>), S(<<"d", "e", "s", "c">>)}

VectorizeListDirectionParam(input) ==
    Optional(input, Parsed(EnumIssues(input, Directions), input))

(***************************************************************************)
(* JSON.stringify.                                                         *)
(***************************************************************************)
RECURSIVE HasCycle(_)
HasCycle(v) ==
    \/ v.t = "circular"
    \/ v.t = "obj" /\ \E k \in 1..Len(v.props) : HasCycle(v.props[k].v)
    \/ v.t = "arr" /\ \E k \in 1..Len(v.items) : HasCycle(v.items[k])

\* a chunk of a string, as it stands inside a JSON string literal
EscapeChunk(ch) ==
    IF ch = Quote THEN EscQuote
    ELSE IF ch.t = "str"
    THEN Str([k \in 1..Len(ch.runs) |->
               Run(IF ch.runs[k].c = "\"" THEN "\\\"" ELSE ch.runs[k].c, ch.runs[k].n)])
    ELSE ch

\* the JSON text of a value that has no cycle and is not undefined
RECURSIVE JsonChunks(_)
RECURSIVE JsonProps(_, _)
RECURSIVE JsonItems(_, _)
JsonChunks(v) ==
    CASE v.t = "null" -> <<Lit("null")>>
      [] v.t = "bool" -> <<Lit(IF v.b THEN "true" ELSE "false")>>
      [] v.t = "num" -> <<v>>
      [] v.t \in {"str", "text"} ->
           <<Quote>> \o [k \in 1..Len(Chunks(v)) |-> EscapeChunk(Chunks(v)[k])] \o <<Quote>>
      [] v.t = "arr" -> <<Lit("[")>> \o JsonItems(v.items, TRUE) \o <<Lit("]")>>
      [] v.t = "obj" -> <<Lit("{")>> \o JsonProps(v.props, TRUE) \o <<Lit("}")>>
      [] OTHER -> <<Lit("{}")>>

\* the properties of an object; a property whose value is undefined is left out
JsonProps(props, first) ==
    IF props = <<>> THEN <<>>
    ELSE IF Head(props).v.t = "undefined" THEN JsonProps(Tail(props), first)
    ELSE (IF first THEN <<>> ELSE <<Lit(",")>>)
         \o <<Quote, Lit(Head(props).k), Quote, Lit(":")>>
         \o JsonChunks(Head(props).v)
         \o JsonProps(Tail(props), FALSE)

\* the items of an array; an undefined item is written null
JsonItems(items, first) ==
    IF items = <<>> THEN <<>>
    ELSE (IF first THEN <<>> ELSE <<Lit(",")>>)
         \o (IF Head(items).t = "undefined" THEN <<Lit("null")>> ELSE JsonChunks(Head(items)))
         \o JsonItems(Tail(items), FALSE)

Returned(value) == [threw |-> FALSE, value |-> value]

Threw(fault) == [threw |-> TRUE, value |-> fault]

CircularError == ErrorObj(Text(<<Lit("Converting circular structure to JSON")>>))

\* JSON.stringify(v): a string, undefined for undefined, or a TypeError thrown
JSONstringify(v) ==
    IF HasCycle(v) THEN Threw(CircularError)
    ELSE IF v.t = "undefined" THEN Returned(Undefined)
    ELSE Returned(Text(JsonChunks(v)))

(***************************************************************************)
(* The tools (tools/vectorize.ts).                                         *)
(***************************************************************************)
Ops ==
    {"create", "list", "get", "delete", "info", "insert", "upsert", "query",
     "get_by_ids", "delete_by_ids"}

\* the parameter shape each tool is registered with
Fields(op) ==
    CASE op = "create" -> <<"name", "config", "description">>
      [] op = "list" -> <<"page", "per_page", "order", "direction">>
      [] op \in {"get", "delete", "info"} -> <<"name">>
      [] op \in {"insert", "upsert"} -> <<"name", "vectors_ndjson", "unparsable_behavior">>
      [] op = "query" ->
           <<"name", "vector", "filter", "return_metadata", "return_values", "top_k">>
      [] op \in {"get_by_ids", "delete_by_ids"} -> <<"name", "ids">>

\* the schema the shapes give each field
FieldSchema(f, input) ==
    CASE f = "name" -> VectorizeIndexNameSchema(input)
      [] f = "config" -> VectorizeIndexConfigSchema(input)
      [] f = "description" -> VectorizeIndexDescriptionSchema(input)
      [] f = "page" -> VectorizeListPageParam(input)
      [] f = "per_page" -> VectorizeListPerPageParam(input)
      [] f = "order" -> VectorizeListOrderParam(input)
      [] f = "direction" -> VectorizeListDirectionParam(input)
      [] f = "vectors_ndjson" -> VectorizeNdjsonBodySchema(input)
      [] f = "unparsable_behavior" -> VectorizeUnparsableBehaviorSchema(input)
      [] f = "vector" -> VectorizeQueryVectorSchema(input)
      [] f = "filter" -> VectorizeQueryFilterSchema(input)
      [] f = "return_metadata" -> VectorizeQueryReturnMetadataSchema(input)
      [] f = "return_values" -> VectorizeQueryReturnValuesSchema(input)
      [] f = "top_k" -> VectorizeQueryTopKSchema(input)
      [] f = "ids" -> VectorizeVectorIdListSchema(input)

RECURSIVE ShapeIssues(_, _)
ShapeIssues(fields, args) ==
    IF fields = <<>> THEN <<>>
    ELSE FieldSchema(Head(fields), args[Head(fields)]).issues \o ShapeIssues(Tail(fields), args)

\* the arguments of a call parsed against the tool's shape: the issues of all
\* fields, and the parsed parameters the handler is called with
ParseArgs(op, args) ==
    Parsed(ShapeIssues(Fields(op), args),
           [f \in DOMAIN args |-> FieldSchema(f, args[f]).value])

\* the remote operation each tool calls
Method(op) ==
    CASE op = "get_by_ids" -> "getByIds"
      [] op = "delete_by_ids" -> "deleteByIds"
      [] OTHER -> op

AccountParam(account_id) == Prop("account_id", account_id)

\* the list handler passing null for a parameter that is not given
ListQueryWithNulls(params) ==
    Obj(<<Prop("page", Coalesce(params.page, Null)),
          Prop("per_page", Coalesce(params.per_page, Null)),
          Prop("order", Coalesce(params.order, Null)),
          Prop("direction", Coalesce(params.direction, Null))>>)

\* the query object the list handler builds
ListQuery(params) ==
    Obj(<<Prop("page", Coalesce(params.page, Undefined)),
          Prop("per_page", Coalesce(params.per_page, Undefined)),
          Prop("order", Coalesce(params.order, Undefined)),
          Prop("direction", Coalesce(params.direction, Undefined))>>)

\* insert and upsert replacing a flag that is not given by "error"
BatchBodyDefaultingFlag(params, account_id) ==
    Obj(<<AccountParam(account_id),
          Prop("body", params.vectors_ndjson),
          Prop("unparsable-behavior",
               Coalesce(params.unparsable_behavior, S(<<"e", "r", "r", "o", "r">>)))>>)

\* the body the insert and upsert handlers build
BatchBody(params, account_id) ==
    Obj(<<AccountParam(account_id),
          Prop("body", params.vectors_ndjson),
          Prop("unparsable-behavior", params.unparsable_behavior)>>)

\* the arguments each handler passes to its remote operation
CallArgs(op, params, account_id) ==
    CASE op = "create" ->
           <<Obj(<<AccountParam(account_id), Prop("name", params.name),
                   Prop("config", params.config), Prop("description", params.description)>>)>>
      [] op = "list" ->
           <<Obj(<<AccountParam(account_id)>>), Obj(<<Prop("query", ListQuery(params))>>)>>
      [] op \in {"get", "delete", "info"} ->
           <<params.name, Obj(<<AccountParam(account_id)>>)>>
      [] op \in {"insert", "upsert"} -> <<params.name, BatchBody(params, account_id)>>
      [] op = "query" ->
           <<params.name,
             Obj(<<AccountParam(account_id), Prop("vector", params.vector),
                   Prop("filter", params.filter),
                   Prop("returnMetadata", params.return_metadata),
                   Prop("returnValues", params.return_values),
                   Prop("topK", params.top_k)>>)>>
      [] op \in {"get_by_ids", "delete_by_ids"} ->
           <<params.name, Obj(<<AccountParam(account_id), Prop("ids", params.ids)>>)>>

\* a remote call made with the account of whichever invocation resolved one
\* first, kept for the invocations after it
RemoteCallCachedAccount(op, params, account_id) ==
    LET holders == {j \in DOMAIN inv : inv[j].resolved}
    IN  [method |-> Method(op),
         args |-> CallArgs(op, params,
                           IF holders = {} THEN account_id
                           ELSE inv[CHOOSE j \in holders : TRUE].account_id)]

RemoteCall(op, params, account_id) ==
    [method |-> Method(op), args |-> CallArgs(op, params, account_id)]

\* "${name}" inside a template literal
Quoted(name) == <<Quote>> \o ToStr(name) \o <<Quote>>

\* `result ?? sentence`, serialized: the response of create, insert, upsert,
\* query and delete_by_ids
ResultOrSentence(result, sentence) == JSONstringify(Coalesce(result, Text(<<Lit(sentence)>>)))

\* create serializing the remote result with no fallback
CreateTextWithoutFallback(params, result) == JSONstringify(result)

CreateText(params, result) ==
    ResultOrSentence(result, "Index created successfully (no detailed response).")

ListText(params, result) == JSONstringify(result)

GetText(params, result) ==
    IF Falsy(result)
    THEN Returned(Text(<<Lit("Error"), Lit(":"), Lit(" Vectorize Index ")>>
                       \o Quoted(params.name) \o <<Lit(" not found.")>>))
    ELSE JSONstringify(result)

\* delete answering as the other mutations do: with the remote result
DeleteTextFromResult(params, result) ==
    JSONstringify(Coalesce(result, Text(<<Lit("Index deleted (no detailed response).")>>)))

DeleteText(params, result) ==
    JSONstringify(Obj(<<Prop("success", Bool(TRUE)),
      Prop("message", Text(<<Lit("Vectorize Index ")>> \o Quoted(params.name)
                           \o <<Lit(" deleted successfully.")>>))>>))

InfoText(params, result) ==
    JSONstringify(Coalesce(result,
      Text(<<Lit("Could not retrieve info for index ")>> \o Quoted(params.name)
           \o <<Lit(".")>>)))

InsertText(params, result) ==
    ResultOrSentence(result, "Insert operation initiated (no detailed response).")

UpsertText(params, result) ==
    ResultOrSentence(result, "Upsert operation initiated (no detailed response).")

QueryText(params, result) ==
    ResultOrSentence(result, "Query executed, but no results returned.")

GetByIdsText(params, result) ==
    IF result = Null \/ result = Undefined
    THEN Returned(Text(<<Lit("Error"), Lit(":"),
                         Lit(" No vectors found for the provided IDs in index ")>>
                       \o Quoted(params.name) \o <<Lit(".")>>))
    ELSE JSONstringify(result)

DeleteByIdsText(params, result) ==
    ResultOrSentence(result, "Delete by IDs operation initiated (no detailed response).")

\* the text each handler gives for a remote result: JSON.stringify's outcome,
\* or a sentence
SuccessText(op, params, result) ==
    CASE op = "create" -> CreateText(params, result)
      [] op = "list" -> ListText(params, result)
      [] op = "get" -> GetText(params, result)
      [] op = "delete" -> DeleteText(params, result)
      [] op = "info" -> InfoText(params, result)
      [] op = "insert" -> InsertText(params, result)
      [] op = "upsert" -> UpsertText(params, result)
      [] op = "query" -> QueryText(params, result)
      [] op = "get_by_ids" -> GetByIdsText(params, result)
      [] op = "delete_by_ids" -> DeleteByIdsText(params, result)

\* the prefix of each handler's catch block
ErrorPrefix(op, params) ==
    <<Lit("Error"), Lit(" ")>> \o
    CASE op = "create" -> <<Lit("creating Vectorize Index: ")>>
      [] op = "list" -> <<Lit("listing Vectorize Indexes: ")>>
      [] op = "get" ->
           <<Lit("getting Vectorize Index ")>> \o Quoted(params.name) \o <<Lit(": ")>>
      [] op = "delete" ->
           <<Lit("deleting Vectorize Index ")>> \o Quoted(params.name) \o <<Lit(": ")>>
      [] op = "info" ->
           <<Lit("getting info for Vectorize Index ")>> \o Quoted(params.name) \o <<Lit(": ")>>
      [] op = "insert" ->
           <<Lit("inserting vectors into Vectorize Index ")>> \o Quoted(params.name)
           \o <<Lit(": ")>>
      [] op = "upsert" ->
           <<Lit("upserting vectors into Vectorize Index ")>> \o Quoted(params.name)
           \o <<Lit(": ")>>
      [] op = "query" ->
           <<Lit("querying Vectorize Index ")>> \o Quoted(params.name) \o <<Lit(": ")>>
      [] op = "get_by_ids" ->
           <<Lit("getting vectors by ID from Vectorize Index ")>> \o Quoted(params.name)
           \o <<Lit(": ")>>
      [] op = "delete_by_ids" ->
           <<Lit("deleting vectors by ID from Vectorize Index ")>> \o Quoted(params.name)
           \o <<Lit(": ")>>

\* the catch block converting every fault with String(error)
DescribeWithString(error) == ToStr(error)

\* error instanceof Error ? error.message : String(error)
Describe(error) == IF error.t = "error" THEN ToStr(error.message) ELSE ToStr(error)

ErrorText(op, params, error) == Text(ErrorPrefix(op, params) \o Describe(error))

Envelope(text) == [content |-> <<[type |-> "text", text |-> text]>>]

MISSING_ACCOUNT_ID_RESPONSE ==
    Envelope(Text(<<Lit("No currently active accountId."),
                    Lit(" Try listing your accounts (accounts_list) and then setting"),
                    Lit(" an active account (set_active_account)")>>))

\* how an invocation ends: with the envelope it returns
Return(envelope) == [pc |-> "returned", envelope |-> envelope, thrown |-> Undefined]

\* how an invocation would end if a fault left the handler
Throw(error) == [pc |-> "threw", envelope |-> Undefined, thrown |-> error]

\* a handler without its catch block: the fault leaves the handler
CatchRethrows(op, params, error) == Throw(error)

\* the catch block of every handler
Catch(op, params, error) == Return(Envelope(ErrorText(op, params, error)))

\* the end of the try block: the text is computed, and a fault in computing it
\* goes to the catch block
Respond(op, params, result) ==
    LET text == SuccessText(op, params, result)
    IN  IF text.threw THEN Catch(op, params, text.value) ELSE Return(Envelope(text.value))

(***************************************************************************)
(* The inputs the environment draws from.                                  *)
(***************************************************************************)
\* all sequences over a set, up to a length
RECURSIVE SeqsUpTo(_, _)
SeqsUpTo(set, n) ==
    IF n = 0 THEN {<<>>}
    ELSE LET shorter == SeqsUpTo(set, n - 1)
         IN  shorter \cup {Append(q, e) : q \in {r \in shorter : Len(r) = n - 1}, e \in set}

Account1 == S(<<"a", "c", "c", "1">>)

Account2 == S(<<"a", "c", "c", "2">>)

\* what the agent's active account can be: unset, empty, or an account id
AccountValues == {Undefined, EmptyStr, Account1, Account2}

Boom == ErrorObj(S(<<"b", "o", "o", "m">>))

\* what a failing step throws: an Error, a string, null
Faults == {Boom, S(<<"o", "o", "p", "s">>), Null}

MutationResult == Obj(<<Prop("mutationId", S(<<"m", "1">>))>>)

NoMatches == Obj(<<Prop("count", Int_(0)), Prop("matches", Arr(<<>>))>>)

\* what a remote operation can settle with
ResultsOf(op) ==
    {Undefined, Null, Circular} \cup (IF op = "query" THEN {NoMatches} ELSE {MutationResult})

GoodName == Rep("a", 1)

LongName == Str(<<Run("a", NameMaxLen - 3), Run("_", 1), Run("-", 1), Run("9", 1)>>)

Names ==
    {GoodName, LongName, EmptyStr, Rep("a", NameMaxLen + 1), Str(<<Run("a", 1), Run("!", 1)>>),
     Undefined}

DimensionConfig == Obj(<<Prop("dimensions", Int_(32)), Prop("metric", Cosine)>>)

PresetConfig == Obj(<<Prop("preset", BgeSmall)>>)

BothConfig ==
    Obj(<<Prop("dimensions", Int_(32)), Prop("metric", Cosine), Prop("preset", BgeSmall)>>)

Configs ==
    {DimensionConfig, PresetConfig, BothConfig,
     Obj(<<Prop("dimensions", Int_(1)), Prop("metric", Cosine)>>),
     Obj(<<Prop("dimensions", Int_(2000)), Prop("metric", Cosine)>>),
     Obj(<<Prop("dimensions", Int_(0)), Prop("metric", Cosine)>>),
     Obj(<<Prop("dimensions", Int_(-4)), Prop("metric", Cosine)>>),
     Obj(<<Prop("dimensions", Num(32, TRUE)), Prop("metric", Cosine)>>),
     Obj(<<Prop("dimensions", Int_(32))>>),
     Obj(<<Prop("dimensions", Int_(32)), Prop("metric", S(<<"l", "1">>))>>),
     Obj(<<Prop("preset", S(<<"b", "e", "r", "t">>))>>),
     Obj(<<Prop("dimensions", Int_(0)), Prop("metric", Cosine), Prop("preset", BgeSmall)>>),
     Obj(<<>>),
     Undefined}

Descriptions ==
    {Undefined, S(<<"d", "e", "m", "o">>), Rep("d", DescriptionMaxLen),
     Rep("d", DescriptionMaxLen + 1)}

GoodLine == S(<<"{", "\"", "i", "d", "\"", ":", "1", "}">>)

BadLine == S(<<"{", "i", "d">>)

Bodies == {EmptyStr, GoodLine, BadLine}

Behaviors == UnparsableBehaviors \cup {Undefined, S(<<"s", "k", "i", "p">>)}

IdLists == {Arr(q) : q \in SeqsUpTo({S(<<"x">>), EmptyStr}, MaxIds)}

Vectors == {Arr(q) : q \in SeqsUpTo({Num(0, TRUE)}, MaxVector)}

Filter == Obj(<<Prop("genre", S(<<"j", "a", "z">>))>>)

TopKs == {Undefined, Int_(5), Int_(0), Int_(-1), Num(1, TRUE)}

Pages == {Undefined, Int_(2), Null, Int_(0), Num(2, TRUE)}

PerPages == {Undefined, Int_(10), Int_(PerPageMax), Int_(PerPageMax + 1), Int_(0), Num(10, TRUE)}

Orders == {Undefined, S(<<"n", "a", "m", "e">>)}

Desc == S(<<"d", "e", "s", "c">>)

ListDirections == {Undefined, Desc, S(<<"u", "p">>)}

CreateBase == [name |-> GoodName, config |-> DimensionConfig, description |-> Undefined]

BatchBase == [name |-> GoodName, vectors_ndjson |-> GoodLine, unparsable_behavior |-> Undefined]

QueryBase ==
    [name |-> GoodName, vector |-> Arr(<<Num(0, TRUE)>>), filter |-> Undefined,
     return_metadata |-> Undefined, return_values |-> Undefined, top_k |-> Undefined]

IdsBase == [name |-> GoodName, ids |-> Arr(<<S(<<"x">>)>>)]

\* the arguments a tool is invoked with: every field takes every value of its
\* set while the others keep a valid value; the list parameters, the batch
\* body and flag are combined freely
ArgsOf(op) ==
    CASE op = "create" ->
              {[CreateBase EXCEPT !.name = n] : n \in Names}
         \cup {[CreateBase EXCEPT !.config = c] : c \in Configs}
         \cup {[CreateBase EXCEPT !.description = d] : d \in Descriptions}
      [] op = "list" ->
              [page : {Undefined, Int_(2)}, per_page : {Undefined, Int_(10)},
               order : Orders, direction : {Undefined, Desc}]
         \cup [page : Pages, per_page : {Undefined}, order : {Undefined}, direction : {Undefined}]
         \cup [page : {Undefined}, per_page : PerPages, order : {Undefined},
               direction : {Undefined}]
         \cup [page : {Undefined}, per_page : {Undefined}, order : {Undefined},
               direction : ListDirections]
      [] op \in {"get", "delete", "info"} -> [name : Names]
      [] op \in {"insert", "upsert"} ->
              {[BatchBase EXCEPT !.name = n] : n \in Names}
         \cup [name : {GoodName}, vectors_ndjson : Bodies, unparsable_behavior : Behaviors]
      [] op = "query" ->
              {[QueryBase EXCEPT !.name = n] : n \in Names}
         \cup {[QueryBase EXCEPT !.vector = v] : v \in Vectors}
         \cup {[QueryBase EXCEPT !.filter = Filter, !.return_values = b] :
                 b \in {Undefined, Bool(TRUE)}}
         \cup {[QueryBase EXCEPT !.return_metadata = m] :
                 m \in {S(<<"a", "l", "l">>), S(<<"s", "o", "m", "e">>)}}
         \cup {[QueryBase EXCEPT !.top_k = k] : k \in TopKs}
      [] op \in {"get_by_ids", "delete_by_ids"} ->
              {[IdsBase EXCEPT !.name = n] : n \in Names}
         \cup {[IdsBase EXCEPT !.ids = l] : l \in IdLists}

(***************************************************************************)
(* The state: the agent's active account, and the invocations the host     *)
(* runtime has made.  An invocation is idle (not made), rejected by the    *)
(* validation of its arguments, resolving (awaiting getActiveAccountId),   *)
(* calling (awaiting the remote operation), returned, or threw.            *)
(***************************************************************************)
Slots == 1..MaxInv

Idle ==
    [pc |-> "idle", op |-> "none", args |-> <<>>, account_id |-> Undefined,
     resolved |-> FALSE, calls |-> <<>>, faultAt |-> "none", fault |-> Undefined,
     settled |-> FALSE, result |-> Undefined, envelope |-> Undefined, thrown |-> Undefined]

\* the parameters the handler of an invocation receives
Params(v) == ParseArgs(v.op, v.args).value

Init ==
    /\ activeAccount \in AccountValues
    /\ inv = [i \in Slots |-> Idle]

\* the runtime validates the arguments against the tool's shape and calls the
\* handler only when they are accepted
Invoke(i) ==
    /\ inv[i].pc = "idle"
    /\ \E op \in Ops : \E args \in ArgsOf(op) :
         inv' = [inv EXCEPT ![i] =
                   [Idle EXCEPT !.op = op, !.args = args,
                                !.pc = IF Accepts(ParseArgs(op, args))
                                       THEN "resolving" ELSE "rejected"]]
    /\ UNCHANGED activeAccount

\* an ending (Return, Throw) applied to an invocation
End(v, ending) ==
    [v EXCEPT !.pc = ending.pc, !.envelope = ending.envelope, !.thrown = ending.thrown]

\* a handler that calls the remote operation before it looks at the account
AfterAccountUnchecked(v) ==
    [v EXCEPT !.pc = "calling",
              !.calls = Append(v.calls, RemoteCall(v.op, Params(v), v.account_id))]

\* a handler that does not await the remote operation and answers at once
AfterAccountNoAwait(v) ==
    IF v.account_id \in {Undefined, Null, EmptyStr}
    THEN [v EXCEPT !.pc = "returned", !.envelope = MISSING_ACCOUNT_ID_RESPONSE]
    ELSE [v EXCEPT !.pc = "returned",
                   !.calls = Append(v.calls, RemoteCall(v.op, Params(v), v.account_id)),
                   !.envelope = Envelope(Text(<<Lit("{}")>>))]

\* after `await agent.getActiveAccountId()`: without an account the handler
\* returns at once, with one it obtains the client and calls the remote
\* operation
AfterAccount(v) ==
    IF Falsy(v.account_id)
    THEN End(v, Return(MISSING_ACCOUNT_ID_RESPONSE))
    ELSE [v EXCEPT !.pc = "calling",
                   !.calls = Append(v.calls, RemoteCall(v.op, Params(v), v.account_id))]

\* getActiveAccountId settles with the active account
AccountResolved(i) ==
    /\ inv[i].pc = "resolving"
    /\ inv' = [inv EXCEPT ![i] =
                 AfterAccount([inv[i] EXCEPT !.account_id = activeAccount, !.resolved = TRUE])]
    /\ UNCHANGED activeAccount

\* getActiveAccountId throws
AccountFaulted(i) ==
    /\ inv[i].pc = "resolving"
    /\ \E error \in Faults :
         inv' = [inv EXCEPT ![i] =
                   End([inv[i] EXCEPT !.faultAt = "account", !.fault = error],
                       Catch(inv[i].op, Params(inv[i]), error))]
    /\ UNCHANGED activeAccount

\* getActiveAccountId settles with an account and getCloudflareClient (or the
\* read of agent.props.accessToken) throws
ClientFaulted(i) ==
    /\ inv[i].pc = "resolving"
    /\ ~Falsy(activeAccount)
    /\ \E error \in Faults :
         inv' = [inv EXCEPT ![i] =
                   End([inv[i] EXCEPT !.account_id = activeAccount, !.resolved = TRUE,
                                      !.faultAt = "client", !.fault = error],
                       Catch(inv[i].op, Params(inv[i]), error))]
    /\ UNCHANGED activeAccount

\* the remote operation settles with a result
RemoteSettled(i) ==
    /\ inv[i].pc = "calling"
    /\ \E result \in ResultsOf(inv[i].op) :
         LET text == SuccessText(inv[i].op, Params(inv[i]), result)
         IN  inv' = [inv EXCEPT ![i] =
                       End([inv[i] EXCEPT !.settled = TRUE, !.result = result,
                                          !.faultAt = IF text.threw THEN "serialize" ELSE "none",
                                          !.fault = IF text.threw THEN text.value ELSE Undefined],
                           Respond(inv[i].op, Params(inv[i]), result))]
    /\ UNCHANGED activeAccount

\* a handler that calls the remote operation again when it throws
RemoteFaultedRetries(i) ==
    /\ inv[i].pc = "calling"
    /\ inv' = [inv EXCEPT ![i].calls =
                 Append(@, RemoteCall(inv[i].op, Params(inv[i]), inv[i].account_id))]
    /\ UNCHANGED activeAccount

\* the remote operation throws
RemoteFaulted(i) ==
    /\ inv[i].pc = "calling"
    /\ \E error \in Faults :
         inv' = [inv EXCEPT ![i] =
                   End([inv[i] EXCEPT !.faultAt = "remote", !.fault = error],
                       Catch(inv[i].op, Params(inv[i]), error))]
    /\ UNCHANGED activeAccount

\* the runtime is done with an invocation; its slot takes the next one
Forget(i) ==
    /\ inv[i].pc \in {"rejected", "returned", "threw"}
    /\ inv' = [inv EXCEPT ![i] = Idle]
    /\ UNCHANGED activeAccount

\* the user sets or clears the active account
SetActiveAccount ==
    /\ \E a \in AccountValues \ {activeAccount} : activeAccount' = a
    /\ UNCHANGED inv

Handler(i) ==
    \/ Invoke(i)
    \/ AccountResolved(i)
    \/ AccountFaulted(i)
    \/ ClientFaulted(i)
    \/ RemoteSettled(i)
    \/ RemoteFaulted(i)
    \/ Forget(i)

\* the runtime makes one invocation at a time, and the active account changes
\* at any moment
Next == Handler(1) \/ SetActiveAccount

Spec == Init /\ [][Next]_vars

\* the tools the concurrent invocations are of: one whose remote call takes
\* the account first and one that takes the index name first
SampleOps(i) == IF i = 1 THEN {"list", "get"} ELSE {"get"}

\* the arguments the concurrent invocations are made with
SampleArgsOf(op) ==
    CASE op = "list" ->
           {[page |-> Undefined, per_page |-> Undefined, order |-> Undefined,
             direction |-> Undefined]}
      [] op = "get" -> {[name |-> GoodName]}

InvokeSample(i) ==
    /\ inv[i].pc = "idle"
    /\ \E op \in SampleOps(i) : \E args \in SampleArgsOf(op) :
         inv' = [inv EXCEPT ![i] =
                   [Idle EXCEPT !.op = op, !.args = args,
                                !.pc = IF Accepts(ParseArgs(op, args))
                                       THEN "resolving" ELSE "rejected"]]
    /\ UNCHANGED activeAccount

HandlerConcurrent(i) ==
    \/ InvokeSample(i)
    \/ AccountResolved(i)
    \/ AccountFaulted(i)
    \/ ClientFaulted(i)
    \/ RemoteSettled(i)
    \/ RemoteFaulted(i)
    \/ Forget(i)

\* the handlers are async functions: invocations in flight interleave at
\* their awaits, with each other and with changes of the active account
NextConcurrent == (\E i \in Slots : HandlerConcurrent(i)) \/ SetActiveAccount

SpecConcurrent == Init /\ [][NextConcurrent]_vars

\* getActiveAccountId of invocation i settles, with a value or a fault
AccountSettles(i) == AccountResolved(i) \/ AccountFaulted(i) \/ ClientFaulted(i)

\* the remote operation of invocation i settles, with a value or a fault
RemoteSettles(i) == RemoteSettled(i) \/ RemoteFaulted(i)

\* the invocations of Next when their two awaited calls always settle in the end
SpecLive ==
    /\ Init
    /\ [][Next]_vars
    /\ WF_vars(AccountSettles(1))
    /\ WF_vars(RemoteSettles(1))

(***************************************************************************)
(* The claims.                                                             *)
(***************************************************************************)
\* the invocations made so far
Made == {i \in Slots : inv[i].pc # "idle"}

\* account resolution of invocation i yielded no active account
NoAccount(i) ==
    /\ inv[i].resolved
    /\ inv[i].account_id \in {Undefined, Null, EmptyStr}

\* account resolution of invocation i yielded an account
HasAccount(i) ==
    /\ inv[i].resolved
    /\ inv[i].account_id \notin {Undefined, Null, EmptyStr}

IsEnvelope(e) == "content" \in DOMAIN e

\* C1: an invocation of any of the ten tools whose account resolution yields
\* no active account has returned the fixed missing-account envelope and has
\* made no remote call.
C1_MissingAccountShortCircuits ==
    \A i \in Made :
      NoAccount(i) =>
        /\ inv[i].pc = "returned"
        /\ inv[i].envelope = MISSING_ACCOUNT_ID_RESPONSE
        /\ inv[i].calls = <<>>

C1_Witness ==
    \E i \in Made :
      /\ NoAccount(i)
      /\ inv[i].op = "delete_by_ids"
      /\ inv[i].account_id = EmptyStr
      /\ inv[i].pc = "returned"

\* C2: no invocation throws to the runtime: whichever step raised a fault
\* (account resolution, obtaining the client, the remote call, serializing
\* the result), the invocation has returned an envelope.
C2_NeverThrows ==
    \A i \in Made :
      /\ inv[i].pc # "threw"
      /\ inv[i].thrown = Undefined
      /\ inv[i].faultAt # "none" => inv[i].pc = "returned" /\ IsEnvelope(inv[i].envelope)

C2_Witness ==
    /\ \E i \in Made : inv[i].faultAt = "serialize" /\ inv[i].pc = "returned"

\* the remote operation that corresponds to each tool
C3_Operation(op) ==
    CASE op = "create" -> "create"
      [] op = "list" -> "list"
      [] op = "get" -> "get"
      [] op = "delete" -> "delete"
      [] op = "info" -> "info"
      [] op = "insert" -> "insert"
      [] op = "upsert" -> "upsert"
      [] op = "query" -> "query"
      [] op = "get_by_ids" -> "getByIds"
      [] op = "delete_by_ids" -> "deleteByIds"

\* C3 as stated: an invocation whose account resolution yields an account
\* has called its remote operation exactly once and no other.
C3_Original ==
    \A i \in Made :
      HasAccount(i) =>
        /\ Len(inv[i].calls) = 1
        /\ inv[i].calls[1].method = C3_Operation(inv[i].op)

\* C3, amended: an invocation whose account resolution yields an account and
\* which obtains the remote client without a fault has called its remote
\* operation exactly once and no other, also after a remote fault; when
\* obtaining the client throws, no call is made; no invocation makes more
\* than one call.
C3_OneRemoteCall ==
    \A i \in Made :
      /\ Len(inv[i].calls) <= 1
      /\ (HasAccount(i) /\ inv[i].faultAt # "client") =>
           /\ Len(inv[i].calls) = 1
           /\ inv[i].calls[1].method = C3_Operation(inv[i].op)
      /\ inv[i].faultAt = "client" => inv[i].calls = <<>>

C3_Witness ==
    \E i \in Made :
      /\ HasAccount(i)
      /\ inv[i].faultAt = "remote"
      /\ inv[i].pc = "returned"
      /\ inv[i].op = "upsert"
      /\ Len(inv[i].calls) = 1

\* a number that is a positive integer
C4_PositiveInteger(x) == x.t = "num" /\ ~x.half /\ x.whole >= 1

C4_Has(args, f) == f \in DOMAIN args

C4_Given(args, f) == f \in DOMAIN args /\ args[f] # Undefined

\* an enum property of a config that carries one variant only
C4_ConfigEnumOutside(c) ==
    /\ c.t = "obj"
    /\ LET keys == {c.props[k].k : k \in 1..Len(c.props)}
       IN  \/ /\ "metric" \in keys
              /\ "preset" \notin keys
              /\ GetProp(c.props, "metric") \notin
                   {S(<<"c", "o", "s", "i", "n", "e">>),
                    S(<<"e", "u", "c", "l", "i", "d", "e", "a", "n">>),
                    S(<<"d", "o", "t", "-", "p", "r", "o", "d", "u", "c", "t">>)}
           \/ /\ keys = {"preset"}
              /\ GetProp(c.props, "preset") \notin Presets

\* some parameter violates a bound of its schema
C4_ViolatesBound(args) ==
    \/ /\ C4_Has(args, "name")
       /\ \/ args.name.t # "str"
          \/ StrLen(args.name) < 1
          \/ StrLen(args.name) > 64
          \/ \E k \in 1..Len(args.name.runs) : args.name.runs[k].c \notin NameChars
    \/ /\ C4_Given(args, "description")
       /\ args.description.t = "str"
       /\ StrLen(args.description) > 1024
    \/ /\ C4_Has(args, "vectors_ndjson")
       /\ args.vectors_ndjson = EmptyStr
    \/ /\ C4_Has(args, "ids")
       /\ \/ args.ids.items = <<>>
          \/ \E k \in 1..Len(args.ids.items) : args.ids.items[k] = EmptyStr
    \/ /\ C4_Has(args, "vector")
       /\ args.vector.items = <<>>
    \/ \E f \in {"top_k", "page"} : C4_Given(args, f) /\ ~C4_PositiveInteger(args[f])
    \/ /\ C4_Given(args, "per_page")
       /\ \/ ~C4_PositiveInteger(args.per_page)
          \/ args.per_page.whole > 100
    \/ /\ C4_Given(args, "unparsable_behavior")
       /\ args.unparsable_behavior \notin
            {S(<<"e", "r", "r", "o", "r">>), S(<<"d", "i", "s", "c", "a", "r", "d">>)}
    \/ /\ C4_Given(args, "return_metadata")
       /\ args.return_metadata \notin
            {S(<<"n", "o", "n", "e">>), S(<<"i", "n", "d", "e", "x", "e", "d">>),
             S(<<"a", "l", "l">>)}
    \/ /\ C4_Given(args, "direction")
       /\ args.direction \notin {S(<<"a", "s", "c">>), S(<<"d", "e", "s", "c">>)}
    \/ /\ C4_Given(args, "config")
       /\ C4_ConfigEnumOutside(args.config)

C5_Configs == {inv[i].args.config : i \in {j \in Made : inv[j].op = "create"}}

\* C5 as stated: of every config the union accepts, exactly one of the two
\* branches accepts it, also when it carries a valid dimensions/metric pair
\* together with a valid preset; a config neither branch accepts is rejected
\* with an error that reports the issues of both branches.
C5_ExactlyOneBranch ==
    \A c \in C5_Configs :
      LET u == VectorizeIndexConfigSchema(c)
          d == Accepts(VectorizeIndexDimensionConfigSchema(c))
          p == Accepts(VectorizeIndexPresetConfigSchema(c))
      IN  /\ Accepts(u) => (d \/ p) /\ ~(d /\ p)
          /\ (~d /\ ~p) =>
               /\ ~Accepts(u)
               /\ Len(u.issues) = 1
               /\ u.issues[1].code = "invalid_union"
               /\ Len(u.issues[1].unionErrors) = 2
               /\ \A k \in 1..2 : u.issues[1].unionErrors[k] # <<>>

\* the text of the envelope of invocation i
TextOf(i) == inv[i].envelope.content[1].text

\* the remote call of invocation i completed without a fault
Completed(i) == inv[i].pc = "returned" /\ inv[i].settled

\* the text is the JSON of {success: true, message: <a string naming the index>}
C6_IsConfirmation(text, name) ==
    /\ text.t = "text"
    /\ LET c == text.chunks
           open == <<Lit("{"), Quote, Lit("success"), Quote, Lit(":"), Lit("true"), Lit(","),
                     Quote, Lit("message"), Quote, Lit(":"), Quote>>
       IN  /\ Len(c) > Len(open) + 2
           /\ SubSeq(c, 1, Len(open)) = open
           /\ SubSeq(c, Len(c) - 1, Len(c)) = <<Quote, Lit("}")>>
           /\ \E k \in Len(open) + 1..Len(c) - 2 : c[k] = name

\* C6 as stated: for delete and delete_by_ids, when the remote call completes
\* without a fault the text is the JSON of {success: true, message} with a
\* message naming the index.
C6_Original ==
    \A i \in Made :
      (inv[i].op \in {"delete", "delete_by_ids"} /\ Completed(i)) =>
        C6_IsConfirmation(TextOf(i), inv[i].args.name)

\* C6, amended: for delete, when the remote call completes without a fault,
\* whatever it returns, the text is the JSON of {success: true, message} with
\* a message naming the index; for delete_by_ids the text is the JSON of the
\* remote result, or of the fixed sentence when the result is null or
\* undefined, and an error text when the result cannot be serialized: no
\* confirmation is synthesized.
C6_DeleteConfirms ==
    \A i \in Made :
      /\ (inv[i].op = "delete" /\ Completed(i)) =>
           C6_IsConfirmation(TextOf(i), inv[i].args.name)
      /\ (inv[i].op = "delete_by_ids" /\ Completed(i)) =>
           /\ ~C6_IsConfirmation(TextOf(i), inv[i].args.name)
           /\ inv[i].result \in {Undefined, Null} =>
                TextOf(i) = Text(<<Quote,
                              Lit("Delete by IDs operation initiated (no detailed response)."),
                              Quote>>)
           /\ inv[i].result = MutationResult =>
                TextOf(i) = Text(<<Lit("{"), Quote, Lit("mutationId"), Quote, Lit(":"),
                                   Quote, S(<<"m", "1">>), Quote, Lit("}")>>)
           /\ inv[i].result = Circular => TextOf(i).chunks[1] = Lit("Error")

C6_Witness ==
    \E i \in Made :
      /\ inv[i].op = "delete"
      /\ Completed(i)
      /\ inv[i].result = Undefined
      /\ inv[i].args.name = LongName

\* the text begins with "Error"
BeginsWithError(text) ==
    /\ text.t = "text"
    /\ text.chunks # <<>>
    /\ text.chunks[1] = Lit("Error")

\* C7 as stated: for get, info and get_by_ids, when the remote call completes
\* without a fault and yields an absent result, the text names the index and
\* does not begin with "Error".
C7_NotFoundIsNoError ==
    \A i \in Made :
      (/\ inv[i].op \in {"get", "info", "get_by_ids"}
       /\ Completed(i)
       /\ inv[i].result \in {Undefined, Null}) =>
        /\ IsString(TextOf(i))
        /\ \E k \in 1..Len(TextOf(i).chunks) : TextOf(i).chunks[k] = inv[i].args.name
        /\ ~BeginsWithError(TextOf(i))

\* C8 as stated: every returned envelope has a content list of exactly one
\* block, of type "text", whose text is a string, also when list is given an
\* undefined remote result.
C8_OneTextBlock ==
    \A i \in Made :
      inv[i].pc = "returned" =>
        /\ IsEnvelope(inv[i].envelope)
        /\ Len(inv[i].envelope.content) = 1
        /\ inv[i].envelope.content[1].type = "text"
        /\ IsString(inv[i].envelope.content[1].text)

\* the description of a fault: its message when it is an Error, otherwise its
\* string conversion
C9_Description(fault) ==
    IF fault.t = "error" THEN Chunks(fault.message)
    ELSE IF fault.t = "null" THEN <<Lit("null")>>
    ELSE IF fault.t = "undefined" THEN <<Lit("undefined")>>
    ELSE Chunks(fault)

\* C9: an invocation in which a fault was raised has returned a text made of
\* the prefix of its operation, which begins with "Error ", and the
\* description of the fault.
C9_FaultText ==
    \A i \in Made :
      inv[i].faultAt # "none" =>
        LET prefix == ErrorPrefix(inv[i].op, inv[i].args)
        IN  /\ inv[i].pc = "returned"
            /\ SubSeq(prefix, 1, 2) = <<Lit("Error"), Lit(" ")>>
            /\ inv[i].op = "create" => prefix[3] = Lit("creating Vectorize Index: ")
            /\ inv[i].op = "list" => prefix[3] = Lit("listing Vectorize Indexes: ")
            /\ TextOf(i) = Text(prefix \o C9_Description(inv[i].fault))
            /\ BeginsWithError(TextOf(i))

C9_Witness ==
    \E i \in Made :
      /\ inv[i].op = "query"
      /\ inv[i].faultAt = "remote"
      /\ inv[i].fault = Boom
      /\ TextOf(i) = Text(<<Lit("Error"), Lit(" "), Lit("querying Vectorize Index "), Quote,
                            GoodName, Quote, Lit(": "), S(<<"b", "o", "o", "m">>)>>)

C10_Fields == {"page", "per_page", "order", "direction"}

\* the properties an object passes on: those whose value is not undefined
C10_Passed(o) ==
    {<<o.props[k].k, o.props[k].v>> : k \in {j \in 1..Len(o.props) : o.props[j].v # Undefined}}

\* C10: the query object the list handler passes to the remote list call
\* holds exactly the given parameters with their values; a parameter that is
\* not given is left out, and none is passed as null.
C10_ListQueryExact ==
    \A i \in Made :
      (inv[i].op = "list" /\ inv[i].calls # <<>>) =>
        LET q == GetProp(inv[i].calls[1].args[2].props, "query")
        IN  /\ q.t = "obj"
            /\ C10_Passed(q) =
                 {<<f, inv[i].args[f]>> : f \in {g \in C10_Fields : inv[i].args[g] # Undefined}}
            /\ \A k \in 1..Len(q.props) : q.props[k].v # Null
            /\ Len(q.props) = Cardinality({q.props[k].k : k \in 1..Len(q.props)})

C10_Witness ==
    \E i \in Made :
      /\ inv[i].op = "list"
      /\ inv[i].calls # <<>>
      /\ inv[i].args.page = Int_(2)
      /\ inv[i].args.per_page = Undefined
      /\ inv[i].args.order = S(<<"n", "a", "m", "e">>)
      /\ inv[i].args.direction = Desc

\* C11 as stated: for query, when the remote call completes without a fault
\* and yields an empty result set (no matches, or an absent result), the text
\* is the fixed "no results" message, not the serialized empty result.
C11_EmptyQueryGivesMessage ==
    \A i \in Made :
      (/\ inv[i].op = "query"
       /\ Completed(i)
       /\ inv[i].result \in
            {Undefined, Null, Obj(<<Prop("count", Int_(0)), Prop("matches", Arr(<<>>))>>)}) =>
        TextOf(i) \in
          {Text(<<Lit("Query executed, but no results returned.")>>),
           Text(<<Quote, Lit("Query executed, but no results returned."), Quote>>)}

\* the fixed sentence of create, insert and upsert for an absent result
C12_Fallback(op) ==
    CASE op = "create" -> "Index created successfully (no detailed response)."
      [] op = "insert" -> "Insert operation initiated (no detailed response)."
      [] op = "upsert" -> "Upsert operation initiated (no detailed response)."

\* C12: for create, insert and upsert, when the remote call completes without
\* a fault and the response is built without one, the text is the JSON of the
\* remote result if it is present and the fixed sentence of the operation (as
\* a JSON string) if it is null or undefined; the text is never empty.
C12_ResultOrFallback ==
    \A i \in Made :
      (/\ inv[i].op \in {"create", "insert", "upsert"}
       /\ Completed(i)
       /\ inv[i].faultAt = "none") =>
        /\ IsString(TextOf(i))
        /\ TextOf(i).chunks # <<>>
        /\ inv[i].result \in {Undefined, Null} =>
             TextOf(i) = Text(<<Quote, Lit(C12_Fallback(inv[i].op)), Quote>>)
        /\ inv[i].result = Obj(<<Prop("mutationId", S(<<"m", "1">>))>>) =>
             TextOf(i) = Text(<<Lit("{"), Quote, Lit("mutationId"), Quote, Lit(":"),
                                Quote, S(<<"m", "1">>), Quote, Lit("}")>>)
        /\ inv[i].result \in {Undefined, Null, Obj(<<Prop("mutationId", S(<<"m", "1">>))>>)}

C12_Witness ==
    \E i \in Made :
      /\ inv[i].op = "create"
      /\ Completed(i)
      /\ inv[i].result = Undefined
      /\ inv[i].args.config = DimensionConfig
      /\ inv[i].args.description = S(<<"d", "e", "m", "o">>)

\* the arguments of invocation i pass validation whatever the NDJSON holds:
\* a valid name, a non-empty body, and a flag that is error, discard or absent
C13_Validated(i) ==
    /\ inv[i].op \in {"insert", "upsert"}
    /\ inv[i].args.name \in {Rep("a", 1), LongName}
    /\ inv[i].args.vectors_ndjson.t = "str"
    /\ inv[i].args.vectors_ndjson # EmptyStr
    /\ inv[i].args.unparsable_behavior \in
         {Undefined, S(<<"e", "r", "r", "o", "r">>), S(<<"d", "i", "s", "c", "a", "r", "d">>)}

\* C13: insert and upsert are not rejected on the content of a validated
\* NDJSON string, and their remote call carries the index name, the resolved
\* account id, the body and the flag exactly as given (an absent flag stays
\* absent) and nothing else.
C13_BatchForwardedVerbatim ==
    \A i \in Made :
      C13_Validated(i) =>
        /\ inv[i].pc # "rejected"
        /\ inv[i].calls # <<>> =>
             LET call == inv[i].calls[1]
             IN  /\ call.method = inv[i].op
                 /\ Len(call.args) = 2
                 /\ call.args[1] = inv[i].args.name
                 /\ call.args[2] =
                      Obj(<<Prop("account_id", inv[i].account_id),
                            Prop("body", inv[i].args.vectors_ndjson),
                            Prop("unparsable-behavior", inv[i].args.unparsable_behavior)>>)
        /\ (HasAccount(i) /\ inv[i].faultAt # "client") => inv[i].calls # <<>>

C13_Witness ==
    \E i \in Made :
      /\ C13_Validated(i)
      /\ inv[i].op = "upsert"
      /\ inv[i].args.vectors_ndjson = BadLine
      /\ inv[i].args.unparsable_behavior = Undefined
      /\ inv[i].calls # <<>>

\* invocation i is a create whose configuration is the dimensions variant with
\* a numeric dimensions value and every other argument valid
C14_DimensionCreate(i) ==
    /\ inv[i].op = "create"
    /\ inv[i].args.name = Rep("a", 1)
    /\ inv[i].args.description = Undefined
    /\ inv[i].args.config.t = "obj"
    /\ Len(inv[i].args.config.props) = 2
    /\ inv[i].args.config.props[1].k = "dimensions"
    /\ inv[i].args.config.props[1].v.t = "num"
    /\ inv[i].args.config.props[2] = [k |-> "metric", v |-> S(<<"c", "o", "s", "i", "n", "e">>)]

C14_Dimensions(i) == inv[i].args.config.props[1].v

\* C14: the dimensions validator accepts a value exactly when it is a positive
\* integer, with no lower bound of 32 and no upper bound of 1536: a create
\* with dimensions 1 or 2000 is not rejected, and its remote create call
\* carries that configuration.
C14_PositiveIntegerOnly ==
    \A i \in Made :
      C14_DimensionCreate(i) =>
        LET d == C14_Dimensions(i)
        IN  /\ (inv[i].pc = "rejected") <=> ~(d.whole > 0 /\ ~d.half)
            /\ (inv[i].pc = "rejected") => inv[i].calls = <<>>
            /\ (d.whole \in {1, 2000} /\ ~d.half /\ HasAccount(i) /\ inv[i].faultAt # "client") =>
                 /\ inv[i].calls # <<>>
                 /\ inv[i].calls[1].method = "create"
                 /\ inv[i].calls[1].args =
                      <<Obj(<<Prop("account_id", inv[i].account_id),
                              Prop("name", inv[i].args.name),
                              Prop("config", inv[i].args.config),
                              Prop("description", Undefined)>>)>>

C14_Witness ==
    \E i \in Made :
      /\ C14_DimensionCreate(i)
      /\ C14_Dimensions(i) = Int_(2000)
      /\ inv[i].calls # <<>>
      /\ inv[i].pc = "returned"
      /\ inv[i].settled

\* the account identifier a remote call carries
C15_CallAccount(call) ==
    (IF call.method \in {"create", "list"} THEN call.args[1] ELSE call.args[2]).props[1].v

C15_Ended(i) == inv[i].pc \in {"returned", "threw"}

\* what the envelope of invocation i may depend on
C15_Own(i) ==
    <<inv[i].op, inv[i].args, inv[i].resolved, inv[i].account_id, inv[i].settled,
      inv[i].result, inv[i].faultAt, inv[i].fault>>

\* a step of the resolution of invocation i puts the account that was active
\* at that step into its remote call
C15_ResolutionStep(i) ==
    (inv[i].pc = "resolving" /\ inv'[i].calls # <<>>) =>
      /\ Len(inv'[i].calls) = 1
      /\ C15_CallAccount(inv'[i].calls[1]) = activeAccount
      /\ inv'[i].account_id = activeAccount

\* what invocation i has issued and returned is not altered by later steps of
\* any invocation or by a change of the active account
C15_Undisturbed(i) ==
    /\ (inv[i].calls # <<>> /\ inv'[i].pc # "idle") => inv'[i].calls = inv[i].calls
    /\ (C15_Ended(i) /\ inv'[i].pc # "idle") => inv'[i] = inv[i]
    /\ (activeAccount' # activeAccount) => inv' = inv

\* C15: under any interleaving of concurrent invocations and changes of the
\* active account, the account identifier in an invocation's remote call is
\* the one its own resolution step obtained, never another invocation's or an
\* earlier one, and its envelope depends only on its own parameters, account,
\* result and fault.
C15_OwnAccountOwnEnvelope ==
    /\ [](\A i \in Made :
            /\ inv[i].calls # <<>> =>
                 /\ inv[i].resolved
                 /\ C15_CallAccount(inv[i].calls[1]) = inv[i].account_id
            /\ \A j \in Made :
                 (C15_Ended(i) /\ C15_Ended(j) /\ C15_Own(i) = C15_Own(j)) =>
                   /\ inv[i].envelope = inv[j].envelope
                   /\ inv[i].pc = inv[j].pc)
    /\ [][\A i \in Slots : C15_ResolutionStep(i) /\ C15_Undisturbed(i)]_vars

\* two invocations in flight with remote calls for different accounts, neither
\* of them the account that is active now
C15_Witness ==
    /\ inv[1].pc = "calling"
    /\ inv[2].pc = "returned"
    /\ inv[2].settled
    /\ inv[1].calls # <<>>
    /\ inv[2].calls # <<>>
    /\ C15_CallAccount(inv[1].calls[1]) = Account1
    /\ C15_CallAccount(inv[2].calls[1]) = Account2
    /\ activeAccount = Undefined

\* invocation i waits for one of its two awaited calls
C16_Pending(i) == inv[i].pc \in {"resolving", "calling"}

\* invocation i has returned an envelope
C16_Returned(i) ==
    /\ inv[i].pc = "returned"
    /\ "content" \in DOMAIN inv[i].envelope

\* the order of the steps of invocation i: the remote call is issued by the
\* step that resolves the account, the envelope is returned by a later step
\* than the one that issued the call, and an envelope once returned is the
\* only one
C16_ChainStep(i) ==
    /\ (inv[i].calls = <<>> /\ inv'[i].calls # <<>>) =>
         /\ inv[i].pc = "resolving"
         /\ ~inv[i].resolved
         /\ inv'[i].resolved
         /\ inv'[i].pc = "calling"
         /\ inv'[i].envelope = Undefined
    /\ (inv[i].pc # "returned" /\ inv'[i].pc = "returned") =>
         /\ C16_Pending(i)
         /\ inv[i].envelope = Undefined
         /\ inv'[i].calls # <<>> => (inv[i].pc = "calling" /\ inv'[i].calls = inv[i].calls)
         /\ inv'[i].settled => inv[i].pc = "calling"
    /\ inv[i].pc = "returned" => (inv'[i] = inv[i] \/ inv'[i].pc = "idle")

\* C16: an invocation is a linear chain: the account is resolved before the
\* remote call is made and the remote call is made before the envelope is
\* returned; when the account resolution and the remote call both settle in
\* the end, with a value or a fault, a pending invocation returns exactly one
\* envelope in the end.
C16_LinearChainTerminates ==
    /\ [](\A i \in Slots :
            /\ inv[i].calls # <<>> => inv[i].resolved
            /\ inv[i].settled => inv[i].calls # <<>>
            /\ inv[i].pc = "calling" => (inv[i].calls # <<>> /\ ~inv[i].settled)
            /\ inv[i].pc # "returned" => inv[i].envelope = Undefined)
    /\ [][\A i \in Slots : C16_ChainStep(i)]_vars
    /\ C16_Pending(1) ~> C16_Returned(1)

C16_Witness ==
    \E i \in Slots :
      /\ C16_Returned(i)
      /\ inv[i].op = "query"
      /\ inv[i].resolved
      /\ inv[i].settled
      /\ Len(inv[i].calls) = 1

====
